---- MODULE Spec2Model ----
(***************************************************************************)
(* Event orchestration of the eventor application: invite acceptance,      *)
(* captain assignment, draft start and the turn-based player pick, as the  *)
(* client pages run them against the shared document store.                *)
(*                                                                         *)
(* The store holds the documents events/{id}, teams/{id}, users/{id},      *)
(* invites/{id} and drafts/{eventId}.  Every page keeps React state that   *)
(* is a copy of documents it fetched earlier; handlers guard on the copy   *)
(* and then write, either in a batch (no reads) or in a transaction (reads *)
(* are validated at commit: the commit is refused when a document read by  *)
(* the transaction was written in between, and the update function is run  *)
(* again or the transaction gives up).  The sub-event page submits the     *)
(* scores of a sub-event with a write batch.                               *)
(***************************************************************************)
EXTENDS Integers, Sequences, FiniteSets, TLC

\* ---------------------------------------------------------------- bounds
MaxUsers == 3          \* users holding an invitation to the event
MaxTeams == 2          \* draft phase: largest numberOfTeams
MinTeams == 2          \* create-event form rejects numberOfTeams < 2
MaxPool == 4           \* draft phase: participants beyond the captains
MaxParticipants == 6   \* draft phase: captains and pool together
ScoreTeams == 2        \* scoring: teams of the event

Users == 1..12
AdminSessions == {"a1", "a2"}
DraftSessions == {"d1", "d2"}
MainDraftSessions == {"d1"}   \* draft pages open in the full lifecycle
ScoreSessions == {"s1", "s2"}

NoTeam == 0            \* teamId: null

VARIABLES
    event,      \* events/{eventId}
    teams,      \* teams collection of the event, in creation order
    users,      \* users/{uid}: role, teamId
    invites,    \* invites/{id}: one per invited user
    draft,      \* drafts/{eventId}
    admin,      \* ManageEventPage sessions: React state and running handler
    dsess,      \* DraftPage sessions: React state and running handler
    picksDone,  \* history: picks committed since the draft was created
    subEvent,   \* subEvents/{subEventId}
    scores,     \* scores collection, in creation order
    ssess,      \* SubEventPage sessions: React state
    submitted,  \* history: the score inputs of the submissions that committed
    lboard      \* LeaderboardPage session: React state

scoreVars == <<subEvent, scores, ssess, submitted, lboard>>

vars == <<event, teams, users, invites, draft, admin, dsess, picksDone,
          subEvent, scores, ssess, submitted, lboard>>

\* ---------------------------------------------------------------- helpers
TeamIds == 1..Len(teams)

CaptainIds(ids) == {teams[t].captainId : t \in ids}

SeqToSet(s) == {s[i] : i \in 1..Len(s)}

NoDraft ==
    [exists |-> FALSE, status |-> "none", pickOrder |-> <<>>,
     currentPickIndex |-> 0, roundNumber |-> 0, totalPicksMade |-> 0]

\* teams.map((team) => team.id) of a fetched query result: ids in query order
RECURSIVE SetToSeq(_)
SetToSeq(S) ==
    IF S = {} THEN <<>>
    ELSE LET m == CHOOSE x \in S : \A y \in S : x <= y
         IN <<m>> \o SetToSeq(S \ {m})

\* ------------------------------------------------------- store: documents
\* handleCreateEvent: the event document as the create-event form writes it
NewEvent(n) ==
    [status |-> "setup", numberOfTeams |-> n,
     participantIds |-> {}, availableForDraftIds |-> {}]

\* signup: users/{uid} starts as a participant on no team
NewUser == [role |-> "participant", teamId |-> NoTeam]

\* ------------------------------------------------- ManageEventPage state
AdminInit ==
    [loaded |-> FALSE, error |-> FALSE, status |-> "none",
     numberOfTeams |-> 0, availableForDraftIds |-> {}, teams |-> <<>>,
     roles |-> [u \in Users |-> "absent"],
     pc |-> "idle", pickOrder |-> <<>>, stale |-> FALSE]

\* fetchEventDetails: eventData, participants and teams as the store has them
FetchEventDetails(ev, tms, us) ==
    [loaded |-> TRUE, error |-> FALSE, status |-> ev.status,
     numberOfTeams |-> ev.numberOfTeams,
     availableForDraftIds |-> ev.availableForDraftIds,
     teams |-> SetToSeq(1..Len(tms)),
     roles |-> [u \in Users |->
                  IF u \in ev.participantIds THEN us[u].role ELSE "absent"],
     pc |-> "idle", pickOrder |-> <<>>, stale |-> FALSE]

\* ------------------------------------------------------- DraftPage state
\* error is the message of setError, "none" for null
DraftSessInit ==
    [mounted |-> FALSE, user |-> 0, teams |-> {}, draftData |-> NoDraft,
     eventLoaded |-> FALSE, availablePlayers |-> {}, error |-> "none",
     pc |-> "idle", playerToPick |-> 0, teamId |-> NoTeam, stale |-> FALSE]

\* ---------------------------------------------- transactions in flight
\* A commit that writes events/{eventId} invalidates every transaction that
\* has read it and not yet committed: handlePickPlayer, handleStartDraft.
InvalidatePicksNoop(ds, except) == ds

InvalidatePicks(ds, except) ==
    [d \in DraftSessions |->
        IF d \notin except /\ ds[d].pc = "read"
        THEN [ds[d] EXCEPT !.stale = TRUE] ELSE ds[d]]

InvalidateStartsNoop(as, except) == as

InvalidateStarts(as, except) ==
    [a \in AdminSessions |->
        IF a \notin except /\ as[a].pc = "read"
        THEN [as[a] EXCEPT !.stale = TRUE] ELSE as[a]]

\* ------------------------------------------------------- SubEventPage state
\* handleCreateSubEvent: the sub-event document as the manage page writes it
NewSubEvent == [status |-> "upcoming"]

SubEventInit ==
    [loaded |-> FALSE, status |-> "none", allEventTeams |-> <<>>,
     scores |-> <<>>, error |-> "none"]

\* fetchData: subEventData, allEventTeams and empty score inputs, error null
FetchData(se, tms) ==
    [loaded |-> TRUE, status |-> se.status,
     allEventTeams |-> SetToSeq(1..Len(tms)),
     scores |-> [i \in 1..Len(tms) |-> <<>>], error |-> "none"]

\* LeaderboardPage before its effect has run: loading, no teams, no scores
LeaderboardInit ==
    [mounted |-> FALSE, loading |-> TRUE, teams |-> <<>>, scores |-> <<>>]

\* the sub-event exists, nothing is scored, no sub-event or leaderboard page
\* is open
InitScores ==
    /\ subEvent = NewSubEvent
    /\ scores = <<>>
    /\ ssess = [s \in ScoreSessions |-> SubEventInit]
    /\ submitted = {}
    /\ lboard = LeaderboardInit

\* ------------------------------------------------------------------ Init
\* The full lifecycle is followed for the smallest event the create-event
\* form accepts; larger numbers of teams are followed in the draft phase.
Init ==
    /\ event = NewEvent(MinTeams)
    /\ teams = <<>>
    /\ users = [u \in Users |-> NewUser]
    /\ invites = [u \in Users |-> IF u <= MaxUsers THEN "pending" ELSE "none"]
    /\ draft = NoDraft
    /\ admin = [a \in AdminSessions |-> AdminInit]
    /\ dsess = [d \in DraftSessions |-> DraftSessInit]
    /\ picksDone = 0
    /\ InitScores

\* ------------------------------------------------------ invitations page
\* handleAccept: transaction; reads the event, marks the invite accepted,
\* arrayUnion(uid) into participantIds and availableForDraftIds, resets the
\* user's teamId.  No status check is made.  Users are interchangeable until
\* they accept, so they are numbered in the order in which they accept.
HandleAcceptPoolOnly(u) ==
    /\ invites[u] = "pending"
    /\ \A v \in 1..(u - 1) : invites[v] = "accepted"
    /\ invites' = [invites EXCEPT ![u] = "accepted"]
    /\ event' = [event EXCEPT !.availableForDraftIds = @ \cup {u}]
    /\ users' = [users EXCEPT ![u].teamId = NoTeam]
    /\ dsess' = InvalidatePicks(dsess, {})
    /\ admin' = InvalidateStarts(admin, {})
    /\ UNCHANGED <<teams, draft, picksDone>>
    /\ UNCHANGED scoreVars

HandleAccept(u) ==
    /\ invites[u] = "pending"
    /\ \A v \in 1..(u - 1) : invites[v] = "accepted"
    /\ invites' = [invites EXCEPT ![u] = "accepted"]
    /\ event' = [event EXCEPT
                   !.participantIds = @ \cup {u},
                   !.availableForDraftIds = @ \cup {u}]
    /\ users' = [users EXCEPT ![u].teamId = NoTeam]
    /\ dsess' = InvalidatePicks(dsess, {})
    /\ admin' = InvalidateStarts(admin, {})
    /\ UNCHANGED <<teams, draft, picksDone>>
    /\ UNCHANGED scoreVars

\* ------------------------------------------------------ ManageEventPage
\* page load / reload: fetchEventDetails from the effect on mount
AdminLoad(a) ==
    /\ admin[a].pc = "idle"
    /\ admin[a] # FetchEventDetails(event, teams, users)
    /\ admin' = [admin EXCEPT ![a] = FetchEventDetails(event, teams, users)]
    /\ UNCHANGED <<event, teams, users, invites, draft, dsess, picksDone>>
    /\ UNCHANGED scoreVars

\* canAssignCaptains: the section that renders the Make Captain buttons
canAssignCaptains(a) ==
    admin[a].status \notin {"drafting", "active", "completed"}

\* handleMakeCaptain: guards on the page's copies, then one write batch
\* (new team, user role, event pool overwritten from the page's copy),
\* then fetchEventDetails.
HandleMakeCaptain(a, u) ==
    /\ admin[a].loaded /\ ~admin[a].error /\ admin[a].pc = "idle"
    /\ canAssignCaptains(a)
    /\ Len(admin[a].teams) < admin[a].numberOfTeams
    /\ admin[a].roles[u] = "participant"
    /\ LET newTeamId == Len(teams) + 1
           tms == Append(teams, [captainId |-> u, memberIds |-> {u}])
           us == [users EXCEPT ![u] = [role |-> "captain", teamId |-> newTeamId]]
           ev == [event EXCEPT !.availableForDraftIds =
                                  admin[a].availableForDraftIds \ {u}]
       IN /\ teams' = tms
          /\ users' = us
          /\ event' = ev
          /\ admin' = [InvalidateStarts(admin, {a}) EXCEPT
                          ![a] = FetchEventDetails(ev, tms, us)]
    /\ dsess' = InvalidatePicks(dsess, {})
    /\ UNCHANGED <<invites, draft, picksDone>>
    /\ UNCHANGED scoreVars

\* [array[i], array[j]] = [array[j], array[i]]  (1-based positions)
Swap(array, i, j) ==
    [k \in 1..Len(array) |->
        IF k = i THEN array[j] ELSE IF k = j THEN array[i] ELSE array[k]]

\* shuffleArray: for i = n-1 down to 1, j = floor(random * (i+1)), swap i, j.
\* js[i] is the j drawn at step i (0-based, as in the code).
RECURSIVE ShuffleFrom(_, _, _)
ShuffleFrom(array, i, js) ==
    IF i <= 0 THEN array
    ELSE ShuffleFrom(Swap(array, i + 1, js[i] + 1), i - 1, js)

shuffleArray(array, js) == ShuffleFrom(array, Len(array) - 1, js)

\* the draws Math.random can produce for an array of length n
Draws(n) == {js \in [1..(n - 1) -> 0..(n - 1)] : \A i \in 1..(n - 1) : js[i] <= i}

\* handleStartDraft, up to runTransaction: guards on the page's copies and
\* the shuffle of the page's team list.
StartDraftBegin(a) ==
    /\ admin[a].loaded /\ ~admin[a].error /\ admin[a].pc = "idle"
    /\ Len(admin[a].teams) = admin[a].numberOfTeams
    /\ admin[a].status \notin {"drafting", "active", "completed"}
    /\ admin[a].availableForDraftIds # {}
    /\ \E js \in Draws(Len(admin[a].teams)) :
         admin' = [admin EXCEPT ![a].pc = "started",
                                ![a].pickOrder = shuffleArray(admin[a].teams, js)]
    /\ UNCHANGED <<event, teams, users, invites, draft, dsess, picksDone>>
    /\ UNCHANGED scoreVars

\* handleStartDraft, transaction function: fresh read of the event and the
\* status check; a throw ends the handler with setError.
StartDraftReadNoCheck(a) ==
    /\ admin[a].pc = "started"
    /\ admin' = [admin EXCEPT ![a].pc = "read", ![a].stale = FALSE]
    /\ UNCHANGED <<event, teams, users, invites, draft, dsess, picksDone>>
    /\ UNCHANGED scoreVars

StartDraftRead(a) ==
    /\ admin[a].pc = "started"
    /\ IF event.status \in {"setup", "inviting", "assigningCaptains"}
       THEN admin' = [admin EXCEPT ![a].pc = "read", ![a].stale = FALSE]
       ELSE admin' = [admin EXCEPT ![a].pc = "idle", ![a].error = TRUE,
                                   ![a].stale = FALSE, ![a].pickOrder = <<>>]
    /\ UNCHANGED <<event, teams, users, invites, draft, dsess, picksDone>>
    /\ UNCHANGED scoreVars

\* the draft document handleStartDraft sets
NewDraft(order) ==
    [exists |-> TRUE, status |-> "active", pickOrder |-> order,
     currentPickIndex |-> 0, roundNumber |-> 1, totalPicksMade |-> 0]

\* handleStartDraft, commit: set the draft, event.status = drafting, then
\* fetchEventDetails.
StartDraftCommit(a) ==
    /\ admin[a].pc = "read" /\ ~admin[a].stale
    /\ LET ev == [event EXCEPT !.status = "drafting"]
       IN /\ draft' = NewDraft(admin[a].pickOrder)
          /\ event' = ev
          /\ admin' = [InvalidateStarts(admin, {a}) EXCEPT
                          ![a] = FetchEventDetails(ev, teams, users)]
    /\ dsess' = InvalidatePicks(dsess, {})
    /\ picksDone' = 0
    /\ UNCHANGED <<teams, users, invites>>
    /\ UNCHANGED scoreVars

\* runTransaction on a refused commit: the update function runs again
StartDraftRetry(a) ==
    /\ admin[a].pc = "read" /\ admin[a].stale
    /\ admin' = [admin EXCEPT ![a].pc = "started", ![a].stale = FALSE]
    /\ UNCHANGED <<event, teams, users, invites, draft, dsess, picksDone>>
    /\ UNCHANGED scoreVars

\* runTransaction on a refused commit: attempts exhausted, the call rejects
StartDraftAbort(a) ==
    /\ admin[a].pc = "read" /\ admin[a].stale
    /\ admin' = [admin EXCEPT ![a].pc = "idle", ![a].error = TRUE,
                              ![a].stale = FALSE, ![a].pickOrder = <<>>]
    /\ UNCHANGED <<event, teams, users, invites, draft, dsess, picksDone>>
    /\ UNCHANGED scoreVars

\* ------------------------------------------------------------ DraftPage
\* mount (or reload after the error screen): the effect fetches the teams of
\* the event once; the listeners deliver later.  Only a captain of a fetched
\* team can ever pass isMyTurn, so other users' sessions are left out.
DraftMount(d, u) ==
    /\ ~dsess[d].mounted \/ (dsess[d].error # "none" /\ dsess[d].user = u)
    /\ dsess[d].pc = "idle"
    /\ u \in CaptainIds(TeamIds)
    /\ dsess' = [dsess EXCEPT ![d] =
                   [DraftSessInit EXCEPT !.mounted = TRUE, !.user = u,
                                         !.teams = TeamIds]]
    /\ UNCHANGED <<event, teams, users, invites, draft, admin, picksDone>>
    /\ UNCHANGED scoreVars

\* the draft document as the listener hands it to setDraftData
DraftSnapshotOf(dr) ==
    [exists |-> TRUE, status |-> dr.status, pickOrder |-> dr.pickOrder,
     currentPickIndex |-> dr.currentPickIndex,
     roundNumber |-> dr.roundNumber, totalPicksMade |-> dr.totalPicksMade]

\* the two onSnapshot listeners; the client raises them from one consistent
\* view of the store.  draftRef: setDraftData, or the "not found" error.
\* eventRef: setEventData and the player list, without the captains of the
\* teams the page fetched.
Listeners(d) ==
    /\ dsess[d].mounted
    /\ LET players == event.availableForDraftIds \ CaptainIds(dsess[d].teams)
           s1 == IF draft.exists
                 THEN [dsess[d] EXCEPT !.draftData = DraftSnapshotOf(draft)]
                 ELSE [dsess[d] EXCEPT !.draftData = NoDraft,
                                       !.error = "DraftNotFound"]
           s2 == [s1 EXCEPT !.eventLoaded = TRUE, !.availablePlayers = players]
       IN /\ s2 # dsess[d]
          /\ dsess' = [dsess EXCEPT ![d] = s2]
    /\ UNCHANGED <<event, teams, users, invites, draft, admin, picksDone>>
    /\ UNCHANGED scoreVars

\* currentPickingTeamId
currentPickingTeamId(d) ==
    IF ~dsess[d].draftData.exists \/ dsess[d].draftData.status = "completed"
    THEN NoTeam
    ELSE dsess[d].draftData.pickOrder[dsess[d].draftData.currentPickIndex + 1]

\* isMyTurn without the comparison with captainId
isMyTurnAnyUser(d) ==
    currentPickingTeamId(d) \in dsess[d].teams

\* isMyTurn: the team on the clock is one the page fetched and the user is
\* its captain
isMyTurn(d) ==
    /\ currentPickingTeamId(d) \in dsess[d].teams
    /\ teams[currentPickingTeamId(d)].captainId = dsess[d].user

\* handlePickPlayer up to runTransaction: the guard on the page's copies;
\* the Draft button is rendered for the listed players while no error shows.
PickBegin(d, p) ==
    /\ dsess[d].mounted /\ dsess[d].error = "none"
    /\ isMyTurn(d)
    /\ dsess[d].eventLoaded
    /\ dsess[d].pc = "idle"
    /\ p \in dsess[d].availablePlayers
    /\ dsess' = [dsess EXCEPT ![d].pc = "started", ![d].playerToPick = p,
                              ![d].teamId = currentPickingTeamId(d),
                              ![d].stale = FALSE]
    /\ UNCHANGED <<event, teams, users, invites, draft, admin, picksDone>>
    /\ UNCHANGED scoreVars

\* step 2 of the transaction function, on the documents as given: the first
\* check that throws, or "ok"
ValidatePickNoTurn(dr, ev, tms, teamId, p) ==
    IF ~dr.exists \/ teamId \notin 1..Len(tms) THEN "Missing"
    ELSE IF dr.status # "active" THEN "DraftNotActive"
    ELSE IF p \notin ev.availableForDraftIds THEN "PlayerUnavailable"
    ELSE "ok"

ValidatePickNoPlayer(dr, ev, tms, teamId, p) ==
    IF ~dr.exists \/ teamId \notin 1..Len(tms) THEN "Missing"
    ELSE IF dr.status # "active" THEN "DraftNotActive"
    ELSE IF dr.pickOrder[dr.currentPickIndex + 1] # teamId THEN "NotYourTurn"
    ELSE "ok"

ValidatePick(dr, ev, tms, teamId, p) ==
    IF ~dr.exists \/ teamId \notin 1..Len(tms) THEN "Missing"
    ELSE IF dr.status # "active" THEN "DraftNotActive"
    ELSE IF dr.pickOrder[dr.currentPickIndex + 1] # teamId THEN "NotYourTurn"
    ELSE IF p \notin ev.availableForDraftIds THEN "PlayerUnavailable"
    ELSE "ok"

\* the handler's catch: setError, setIsPicking(false)
PickFailed(s, kind) ==
    [s EXCEPT !.pc = "idle", !.error = kind, !.stale = FALSE]

\* step 3 of the transaction function, draft document (defined with step 4)
AdvanceTurn(dr) ==
    [dr EXCEPT !.currentPickIndex = (dr.currentPickIndex + 1) % Len(dr.pickOrder),
               !.totalPicksMade = dr.totalPicksMade + 1]

PickReadWritesFirst(d) ==
    /\ dsess[d].pc = "started"
    /\ LET v == ValidatePick(draft, event, teams, dsess[d].teamId,
                             dsess[d].playerToPick)
       IN /\ dsess' = [dsess EXCEPT ![d] =
                         IF v = "ok" THEN [@ EXCEPT !.pc = "read", !.stale = FALSE]
                         ELSE PickFailed(@, v)]
          /\ draft' = IF v = "PlayerUnavailable" THEN AdvanceTurn(draft) ELSE draft
    /\ UNCHANGED <<event, teams, users, invites, admin, picksDone>>
    /\ UNCHANGED scoreVars

\* transaction function, steps 1 and 2: fresh reads of draft, event and team
\* and the checks; a throw ends the call
PickRead(d) ==
    /\ dsess[d].pc = "started"
    /\ LET v == ValidatePick(draft, event, teams, dsess[d].teamId,
                             dsess[d].playerToPick)
       IN dsess' = [dsess EXCEPT ![d] =
                      IF v = "ok" THEN [@ EXCEPT !.pc = "read", !.stale = FALSE]
                      ELSE PickFailed(@, v)]
    /\ UNCHANGED <<event, teams, users, invites, draft, admin, picksDone>>
    /\ UNCHANGED scoreVars

\* step 3: the draft document after the pick; size is teams.size of the page
NextDraftNoWrap(dr, ev, size) ==
    [dr EXCEPT !.currentPickIndex = dr.currentPickIndex + 1,
               !.totalPicksMade = dr.totalPicksMade + 1]

NextDraft(dr, ev, size) ==
    LET nextPickIndex == (dr.currentPickIndex + 1) % Len(dr.pickOrder)
        nextRoundNumber == IF nextPickIndex = 0 THEN dr.roundNumber + 1
                           ELSE dr.roundNumber
        remainingDraftablePlayers == Cardinality(ev.availableForDraftIds) - 1
        draftIsCompleting == remainingDraftablePlayers <= size
    IN [dr EXCEPT !.currentPickIndex = nextPickIndex,
                  !.roundNumber = nextRoundNumber,
                  !.totalPicksMade = dr.totalPicksMade + 1,
                  !.status = IF draftIsCompleting THEN "completed" ELSE "active"]

\* step 4, event document, without the status
NextEventPoolOnly(ev, size, p) ==
    [ev EXCEPT !.availableForDraftIds = @ \ {p}]

\* step 4, event document: arrayRemove(player) and the status
NextEvent(ev, size, p) ==
    LET draftIsCompleting == Cardinality(ev.availableForDraftIds) - 1 <= size
    IN [ev EXCEPT !.availableForDraftIds = @ \ {p},
                  !.status = IF draftIsCompleting THEN "active" ELSE "drafting"]

\* step 4, team and user documents
NextTeamsAll(tms, teamId, p) ==
    [t \in 1..Len(tms) |-> [tms[t] EXCEPT !.memberIds = @ \cup {p}]]

NextTeams(tms, teamId, p) ==
    [tms EXCEPT ![teamId].memberIds = @ \cup {p}]

NextUsers(us, teamId, p) == [us EXCEPT ![p].teamId = teamId]

\* commit of the pick: accepted only while none of the documents read has
\* been written since the read, so the writes are those computed from them
PickCommit(d) ==
    /\ dsess[d].pc = "read" /\ ~dsess[d].stale
    /\ LET size == Cardinality(dsess[d].teams)
           p == dsess[d].playerToPick
           t == dsess[d].teamId
       IN /\ draft' = NextDraft(draft, event, size)
          /\ event' = NextEvent(event, size, p)
          /\ teams' = NextTeams(teams, t, p)
          /\ users' = NextUsers(users, t, p)
    /\ dsess' = [InvalidatePicks(dsess, {d}) EXCEPT
                   ![d].pc = "idle"]
    /\ admin' = InvalidateStarts(admin, {})
    /\ picksDone' = picksDone + 1
    /\ UNCHANGED invites
    /\ UNCHANGED scoreVars

\* runTransaction on a refused commit: the update function runs again
PickRetry(d) ==
    /\ dsess[d].pc = "read" /\ dsess[d].stale
    /\ dsess' = [dsess EXCEPT ![d].pc = "started", ![d].stale = FALSE]
    /\ UNCHANGED <<event, teams, users, invites, draft, admin, picksDone>>
    /\ UNCHANGED scoreVars

\* runTransaction on a refused commit: attempts exhausted, the call rejects
PickAbort(d) ==
    /\ dsess[d].pc = "read" /\ dsess[d].stale
    /\ dsess' = [dsess EXCEPT ![d] = PickFailed(@, "TurnConflict")]
    /\ UNCHANGED <<event, teams, users, invites, draft, admin, picksDone>>
    /\ UNCHANGED scoreVars

\* ------------------------------------------------------- specification
Next ==
    \/ \E u \in Users : HandleAccept(u)
    \/ \E a \in AdminSessions : AdminLoad(a)
    \/ \E a \in AdminSessions, u \in Users : HandleMakeCaptain(a, u)
    \/ \E a \in AdminSessions : StartDraftBegin(a)
    \/ \E a \in AdminSessions : StartDraftRead(a)
    \/ \E a \in AdminSessions : StartDraftCommit(a)
    \/ \E a \in AdminSessions : StartDraftRetry(a)
    \/ \E a \in AdminSessions : StartDraftAbort(a)
    \/ \E d \in MainDraftSessions, u \in Users : DraftMount(d, u)
    \/ \E d \in MainDraftSessions : Listeners(d)
    \/ \E d \in MainDraftSessions, p \in Users : PickBegin(d, p)
    \/ \E d \in MainDraftSessions : PickRead(d)
    \/ \E d \in MainDraftSessions : PickCommit(d)
    \/ \E d \in MainDraftSessions : PickRetry(d)
    \/ \E d \in MainDraftSessions : PickAbort(d)

Spec == Init /\ [][Next]_vars

\* ------------------------------------------- the draft, one admin session
\* The event after MaxPool + numberOfTeams invitations were accepted, with no
\* captain assigned yet; one admin session, its page just loaded, assigns the
\* captains and starts the draft; the captains' draft pages may be opened at
\* any moment.  The
\* participants are interchangeable until they are made captain, so the
\* captains are numbered in the order in which they are assigned.
InitDraft ==
    /\ \E n \in MinTeams..MaxTeams, k \in 1..MaxPool :
         /\ n + k <= MaxParticipants
         /\ event = [NewEvent(n) EXCEPT !.participantIds = 1..(n + k),
                                        !.availableForDraftIds = 1..(n + k)]
         /\ invites = [u \in Users |-> IF u <= n + k THEN "accepted" ELSE "none"]
    /\ teams = <<>>
    /\ users = [u \in Users |-> NewUser]
    /\ draft = NoDraft
    /\ admin = [a \in AdminSessions |->
                  IF a = "a1" THEN FetchEventDetails(event, teams, users)
                  ELSE AdminInit]
    /\ dsess = [d \in DraftSessions |-> DraftSessInit]
    /\ picksDone = 0
    /\ InitScores

\* The players nobody has chosen yet are interchangeable: they are in the
\* pool and in every copy of it.  So they are numbered in the order in which
\* they are first chosen: a pick takes a player that is on a team or in some
\* page's pick already, or the first one after those.
Chosen ==
    UNION {teams[t].memberIds : t \in TeamIds}
        \cup {dsess[d].playerToPick : d \in DraftSessions}

Candidates == {p \in Users : \E q \in Chosen : p <= q + 1}

NextDraftPhase ==
    \/ HandleMakeCaptain("a1", Len(teams) + 1)
    \/ StartDraftBegin("a1")
    \/ StartDraftRead("a1")
    \/ StartDraftCommit("a1")
    \/ \E d \in DraftSessions, u \in Users : DraftMount(d, u)
    \/ \E d \in DraftSessions : Listeners(d)
    \/ \E d \in DraftSessions, p \in Candidates : PickBegin(d, p)
    \/ \E d \in DraftSessions : PickRead(d)
    \/ \E d \in DraftSessions : PickCommit(d)
    \/ \E d \in DraftSessions : PickRetry(d)
    \/ \E d \in DraftSessions : PickAbort(d)

SpecDraft == InitDraft /\ [][NextDraftPhase]_vars

\* --------------------------------------- the worked example of the draft
\* 4 teams captained by users 1..4, a pool of 6 participants 5..10, the draft
\* just started; the teams are numbered by their place in the pick order.
ExampleTeams == 4
ExamplePool == 6

InitExample ==
    /\ event = [status |-> "drafting", numberOfTeams |-> ExampleTeams,
                participantIds |-> 1..(ExampleTeams + ExamplePool),
                availableForDraftIds |->
                    (ExampleTeams + 1)..(ExampleTeams + ExamplePool)]
    /\ teams = [t \in 1..ExampleTeams |-> [captainId |-> t, memberIds |-> {t}]]
    /\ users = [u \in Users |->
                  IF u <= ExampleTeams THEN [role |-> "captain", teamId |-> u]
                  ELSE NewUser]
    /\ invites = [u \in Users |->
                    IF u <= ExampleTeams + ExamplePool THEN "accepted" ELSE "none"]
    /\ draft = NewDraft(SetToSeq(1..ExampleTeams))
    /\ admin = [a \in AdminSessions |-> AdminInit]
    /\ dsess = [d \in DraftSessions |-> DraftSessInit]
    /\ picksDone = 0
    /\ InitScores

NextExample ==
    \/ \E d \in DraftSessions, u \in Users : DraftMount(d, u)
    \/ \E d \in DraftSessions : Listeners(d)
    \/ \E d \in DraftSessions, p \in Candidates : PickBegin(d, p)
    \/ \E d \in DraftSessions : PickRead(d)
    \/ \E d \in DraftSessions : PickCommit(d)
    \/ \E d \in DraftSessions : PickRetry(d)
    \/ \E d \in DraftSessions : PickAbort(d)

SpecExample == InitExample /\ [][NextExample]_vars

\* ------------------------------------------------------- SubEventPage
\* An input text is the sequence of its characters.  Texts an admin may try
\* to type into a score field:
Texts == {<<>>, <<"-">>, <<"5">>, <<"1", "0">>, <<"5", "x">>, <<" ", "5">>}

Digits == {"0", "1", "2", "3", "4", "5", "6", "7", "8", "9"}

DigitVal(c) ==
    CASE c = "0" -> 0 [] c = "1" -> 1 [] c = "2" -> 2 [] c = "3" -> 3
      [] c = "4" -> 4 [] c = "5" -> 5 [] c = "6" -> 6 [] c = "7" -> 7
      [] c = "8" -> 8 [] c = "9" -> 9

\* String.prototype.trim on the texts above (the blank is the only white space)
RECURSIVE TrimStart(_)
TrimStart(t) ==
    IF t # <<>> /\ Head(t) = " " THEN TrimStart(Tail(t)) ELSE t

RECURSIVE TrimEnd(_)
TrimEnd(t) ==
    IF t # <<>> /\ t[Len(t)] = " " THEN TrimEnd(SubSeq(t, 1, Len(t) - 1)) ELSE t

Trim(t) == TrimEnd(TrimStart(t))

\* the value of the longest prefix of digits of t, acc being the value so far
RECURSIVE DigitPrefix(_, _, _)
DigitPrefix(t, n, acc) ==
    IF t # <<>> /\ Head(t) \in Digits
    THEN DigitPrefix(Tail(t), n + 1, 10 * acc + DigitVal(Head(t)))
    ELSE [n |-> n, val |-> acc]

NaN == [nan |-> TRUE, val |-> 0]

\* parseInt(t, 10): white space skipped, an optional sign, then the longest
\* prefix of digits; NaN when there is no digit
parseInt(t) ==
    LET u == TrimStart(t)
        signed == u # <<>> /\ Head(u) \in {"-", "+"}
        body == IF signed THEN Tail(u) ELSE u
        d == DigitPrefix(body, 0, 0)
    IN IF d.n = 0 THEN NaN
       ELSE [nan |-> FALSE,
             val |-> IF signed /\ Head(u) = "-" THEN 0 - d.val ELSE d.val]

\* the test of handleScoreChange: "", "-", or /^-?[0-9]*$/
ScoreInputAccepted(value) ==
    \/ value = <<>>
    \/ value = <<"-">>
    \/ /\ value # <<>>
       /\ LET body == IF Head(value) = "-" THEN Tail(value) ELSE value
          IN \A i \in 1..Len(body) : body[i] \in Digits

\* mount or reload of the page: fetchData
ScoreLoad(s) ==
    /\ ssess[s] # FetchData(subEvent, teams)
    /\ ssess' = [ssess EXCEPT ![s] = FetchData(subEvent, teams)]
    /\ UNCHANGED <<event, teams, users, invites, draft, admin, dsess, picksDone,
                   subEvent, scores, submitted, lboard>>

\* the score form is rendered: no error screen, scoring not closed
canScore(s) ==
    ssess[s].loaded /\ ssess[s].error = "none" /\ ssess[s].status # "completed"

\* handleScoreChange on the i-th score field
HandleScoreChange(s, i, value) ==
    /\ canScore(s)
    /\ i \in 1..Len(ssess[s].allEventTeams)
    /\ ScoreInputAccepted(value)
    /\ ssess[s].scores[i] # value
    /\ ssess' = [ssess EXCEPT ![s].scores[i] = value]
    /\ UNCHANGED <<event, teams, users, invites, draft, admin, dsess, picksDone,
                   subEvent, scores, submitted, lboard>>

\* the documents batch.set adds for the inputs, in the order of the fields
RECURSIVE ScoreDocs(_, _, _)
ScoreDocs(tms, inputs, i) ==
    IF i > Len(inputs) THEN <<>>
    ELSE LET pointsStr == Trim(inputs[i])
             rest == ScoreDocs(tms, inputs, i + 1)
         IN IF pointsStr = <<>> THEN rest
            ELSE <<[teamId |-> tms[i], points |-> parseInt(pointsStr).val]>>
                     \o rest

\* the outcome of the loop over the inputs: the first throw, or "ok"
SubmitOutcome(inputs) ==
    IF \E i \in 1..Len(inputs) :
          Trim(inputs[i]) # <<>> /\ parseInt(Trim(inputs[i])).nan
    THEN "ValidationError"
    ELSE IF \A i \in 1..Len(inputs) : Trim(inputs[i]) = <<>>
    THEN "NoScores"
    ELSE "ok"

\* handleSubmitScores: guards on the page's copy of the sub-event, one new
\* score document per non-empty input and status = completed in one batch,
\* then fetchData; a throw before the commit ends in setError.
HandleSubmitScores(s) ==
    /\ canScore(s)
    /\ Len(ssess[s].allEventTeams) > 0
    /\ LET inputs == ssess[s].scores
           outcome == SubmitOutcome(inputs)
       IN IF outcome = "ok"
          THEN LET sc == scores \o ScoreDocs(ssess[s].allEventTeams, inputs, 1)
                   se == [subEvent EXCEPT !.status = "completed"]
               IN /\ scores' = sc
                  /\ subEvent' = se
                  /\ submitted' = submitted \cup {inputs}
                  /\ ssess' = [ssess EXCEPT ![s] = FetchData(se, teams)]
          ELSE /\ ssess' = [ssess EXCEPT ![s].error = outcome]
               /\ UNCHANGED <<subEvent, scores, submitted>>
    /\ UNCHANGED <<event, teams, users, invites, draft, admin, dsess, picksDone,
                   lboard>>

\* ------------------------------------------------- scoring a sub-event
\* The event after its draft, with up to ScoreTeams teams and one sub-event;
\* the admin has the sub-event page open in up to two tabs.
InitScoring ==
    /\ \E n \in 1..ScoreTeams :
         /\ event = [status |-> "active", numberOfTeams |-> ScoreTeams,
                     participantIds |-> 1..n, availableForDraftIds |-> {}]
         /\ teams = [t \in 1..n |-> [captainId |-> t, memberIds |-> {t}]]
         /\ users = [u \in Users |->
                       IF u <= n THEN [role |-> "captain", teamId |-> u]
                       ELSE NewUser]
         /\ invites = [u \in Users |-> IF u <= n THEN "accepted" ELSE "none"]
    /\ draft = NoDraft
    /\ admin = [a \in AdminSessions |-> AdminInit]
    /\ dsess = [d \in DraftSessions |-> DraftSessInit]
    /\ picksDone = 0
    /\ InitScores

NextScoring ==
    \/ \E s \in ScoreSessions : ScoreLoad(s)
    \/ \E s \in ScoreSessions, i \in 1..ScoreTeams, value \in Texts :
          HandleScoreChange(s, i, value)
    \/ \E s \in ScoreSessions : HandleSubmitScores(s)

SpecScoring == InitScoring /\ [][NextScoring]_vars

\* ------------------------------- the sub-event page of the source tree
\* The revision of the page in the source tree: its score fields are number
\* inputs and handleScoreChange stores whatever they hand over; a number
\* input holds "" or a decimal number.
NumberTexts == {<<>>, <<"5">>, <<"1", "0">>, <<"1", ".", "5">>, <<".", "5">>}

\* handleScoreChange of the tree revision: no test of the value
HandleScoreChangePage(s, i, value) ==
    /\ canScore(s)
    /\ i \in 1..Len(ssess[s].allEventTeams)
    /\ ssess[s].scores[i] # value
    /\ ssess' = [ssess EXCEPT ![s].scores[i] = value]
    /\ UNCHANGED <<event, teams, users, invites, draft, admin, dsess, picksDone,
                   subEvent, scores, submitted, lboard>>

\* the documents batch.set adds in the tree revision: one for every input
\* parseInt makes a number of
RECURSIVE ScoreDocsPage(_, _, _)
ScoreDocsPage(tms, inputs, i) ==
    IF i > Len(inputs) THEN <<>>
    ELSE LET points == parseInt(inputs[i])
             rest == ScoreDocsPage(tms, inputs, i + 1)
         IN IF points.nan THEN rest
            ELSE <<[teamId |-> tms[i], points |-> points.val]>> \o rest

\* the outcome of the loop of the tree revision: a throw on an input that is
\* NaN and not blank, "No valid scores" when nothing was a number, or "ok"
SubmitOutcomePage(inputs) ==
    IF \E i \in 1..Len(inputs) :
          parseInt(inputs[i]).nan /\ Trim(inputs[i]) # <<>>
    THEN "ValidationError"
    ELSE IF \A i \in 1..Len(inputs) : parseInt(inputs[i]).nan
    THEN "NoScores"
    ELSE "ok"

\* handleSubmitScores of the tree revision, behind the same render gates
HandleSubmitScoresPage(s) ==
    /\ canScore(s)
    /\ LET inputs == ssess[s].scores
           outcome == SubmitOutcomePage(inputs)
       IN IF outcome = "ok"
          THEN LET sc == scores
                           \o ScoreDocsPage(ssess[s].allEventTeams, inputs, 1)
                   se == [subEvent EXCEPT !.status = "completed"]
               IN /\ scores' = sc
                  /\ subEvent' = se
                  /\ submitted' = submitted \cup {inputs}
                  /\ ssess' = [ssess EXCEPT ![s] = FetchData(se, teams)]
          ELSE /\ ssess' = [ssess EXCEPT ![s].error = outcome]
               /\ UNCHANGED <<subEvent, scores, submitted>>
    /\ UNCHANGED <<event, teams, users, invites, draft, admin, dsess, picksDone,
                   lboard>>

NextScoringPage ==
    \/ \E s \in ScoreSessions : ScoreLoad(s)
    \/ \E s \in ScoreSessions, i \in 1..ScoreTeams, value \in NumberTexts :
          HandleScoreChangePage(s, i, value)
    \/ \E s \in ScoreSessions : HandleSubmitScoresPage(s)

SpecScoringPage == InitScoring /\ [][NextScoringPage]_vars

\* ------------------------------------------------------ LeaderboardPage
\* the orders in which a query can hand over n documents: teams and scores
\* have auto-generated ids and the queries have no orderBy, so the order of a
\* snapshot is that of the ids, not that of creation
Perms(n) ==
    {f \in [1..n -> 1..n] : \A i, j \in 1..n : f[i] = f[j] => i = j}

Permute(s, order) == [i \in 1..Len(s) |-> s[order[i]]]

\* the effect on mount: the teams are fetched once, into a Map in the order
\* of the query snapshot, and the scores listener is attached
LeaderboardMount(order) ==
    /\ ~lboard.mounted
    /\ order \in Perms(Len(teams))
    /\ lboard' = [mounted |-> TRUE, loading |-> TRUE,
                  teams |-> Permute(SetToSeq(1..Len(teams)), order),
                  scores |-> <<>>]
    /\ UNCHANGED <<event, teams, users, invites, draft, admin, dsess, picksDone,
                   subEvent, scores, ssess, submitted>>

\* the scores listener: setScores with the documents of the snapshot, in the
\* snapshot's order
LeaderboardSnapshot(order) ==
    /\ lboard.mounted
    /\ order \in Perms(Len(scores))
    /\ lboard.loading \/ lboard.scores # Permute(scores, order)
    /\ lboard' = [lboard EXCEPT !.scores = Permute(scores, order),
                                !.loading = FALSE]
    /\ UNCHANGED <<event, teams, users, invites, draft, admin, dsess, picksDone,
                   subEvent, scores, ssess, submitted>>

\* teams.forEach: one entry per fetched team, totalPoints 0
EmptyEntries(tms) ==
    [i \in 1..Len(tms) |-> [teamId |-> tms[i], totalPoints |-> 0]]

\* scores.forEach with the last score of a team replacing its total
RECURSIVE AddScoresLastWins(_, _)
AddScoresLastWins(agg, sc) ==
    IF sc = <<>> THEN agg
    ELSE AddScoresLastWins(
             [i \in 1..Len(agg) |->
                 IF agg[i].teamId = Head(sc).teamId
                 THEN [agg[i] EXCEPT !.totalPoints = Head(sc).points]
                 ELSE agg[i]],
             Tail(sc))

\* scores.forEach: the points of a score are added to the entry of its team;
\* a score of a team that has no entry is skipped with a warning
RECURSIVE AddScores(_, _)
AddScores(agg, sc) ==
    IF sc = <<>> THEN agg
    ELSE AddScores(
             [i \in 1..Len(agg) |->
                 IF agg[i].teamId = Head(sc).teamId
                 THEN [agg[i] EXCEPT !.totalPoints = @ + Head(sc).points]
                 ELSE agg[i]],
             Tail(sc))

\* the place of entry e among entries sorted so far: behind every entry
\* whose total is not smaller (the sort is stable)
RECURSIVE InsertEntry(_, _)
InsertEntry(e, sorted) ==
    IF sorted = <<>> THEN <<e>>
    ELSE IF Head(sorted).totalPoints >= e.totalPoints
    THEN <<Head(sorted)>> \o InsertEntry(e, Tail(sorted))
    ELSE <<e>> \o sorted

\* Array.prototype.sort((a, b) => b.totalPoints - a.totalPoints)
RECURSIVE SortEntries(_, _)
SortEntries(entries, sorted) ==
    IF entries = <<>> THEN sorted
    ELSE SortEntries(Tail(entries), InsertEntry(Head(entries), sorted))

\* leaderboardData: Object.values of the entries, sorted by total descending
leaderboardData(tms, sc) ==
    SortEntries(AddScores(EmptyEntries(tms), sc), <<>>)

\* ------------------------------------------------ following a leaderboard
\* The event in setup with its participants accepted; the admin makes the
\* captains and scores the sub-event in up to two tabs; a leaderboard page
\* is opened at any time (the dashboards link to it in every status).
BoardTexts == {<<>>, <<"5">>, <<"1", "0">>}

InitLeaderboard ==
    /\ event = [NewEvent(MinTeams) EXCEPT
                   !.participantIds = 1..MinTeams,
                   !.availableForDraftIds = 1..MinTeams]
    /\ teams = <<>>
    /\ users = [u \in Users |-> NewUser]
    /\ invites = [u \in Users |->
                    IF u <= MinTeams THEN "accepted" ELSE "none"]
    /\ draft = NoDraft
    /\ admin = [a \in AdminSessions |-> AdminInit]
    /\ dsess = [d \in DraftSessions |-> DraftSessInit]
    /\ picksDone = 0
    /\ InitScores

NextLeaderboard ==
    \/ AdminLoad("a1")
    \/ \E u \in 1..MinTeams : HandleMakeCaptain("a1", u)
    \/ \E s \in ScoreSessions : ScoreLoad(s)
    \/ \E s \in ScoreSessions, i \in 1..MinTeams, value \in BoardTexts :
          HandleScoreChange(s, i, value)
    \/ \E s \in ScoreSessions : HandleSubmitScores(s)
    \/ \E order \in Perms(Len(teams)) : LeaderboardMount(order)
    \/ \E order \in Perms(Len(scores)) : LeaderboardSnapshot(order)

SpecLeaderboard == InitLeaderboard /\ [][NextLeaderboard]_vars

\* ===================================================== properties checked
\* what a step did to the pick a draft page has in flight
InFlight(d) == dsess[d].pc \in {"started", "read"}

PickCommitted(d) ==
    dsess[d].pc = "read" /\ dsess'[d].pc = "idle" /\ dsess'[d].error = "none"

PickRejected(d) ==
    InFlight(d) /\ dsess'[d].pc = "idle" /\ dsess'[d].error # "none"

\* the outcome of the checks of d's pick, re-run on the stored documents
Recheck(d) ==
    ValidatePick(draft, event, teams, dsess[d].teamId, dsess[d].playerToPick)

PoolSize == Cardinality(event.availableForDraftIds)

NoDuplicates(s) == \A i, j \in 1..Len(s) : s[i] = s[j] => i = j

\* two picks that read the same turn: both have read, neither is invalidated
SameTurnRace(d, e) ==
    /\ d # e
    /\ dsess[d].pc = "read" /\ ~dsess[d].stale
    /\ dsess[e].pc = "read" /\ ~dsess[e].stale

\* the part of C1 both versions share: the winner's commit counts one pick,
\* takes one player out of the pool, and refuses the commit of the other
TurnRaceOneWinner(d, e) ==
    /\ dsess'[e].pc = "read" /\ dsess'[e].stale
    /\ draft'.totalPicksMade = draft.totalPicksMade + 1
    /\ PoolSize' = PoolSize - 1

PlayerRace(d, e) ==
    /\ d # e /\ InFlight(e) /\ PickCommitted(d)
    /\ dsess[e].playerToPick = dsess[d].playerToPick
    /\ dsess[e].teamId # dsess[d].teamId

\* the part of C2 both versions share: the other pick cannot commit any more
\* and the player is a member of the winner's team only
PlayerRaceOneWinner(d, e) ==
    /\ dsess[e].pc = "read" => dsess'[e].stale
    /\ dsess[d].playerToPick \in teams'[dsess[d].teamId].memberIds
    /\ \A t \in 1..Len(teams') :
         dsess[d].playerToPick \in teams'[t].memberIds => t = dsess[d].teamId

\* C2 (as stated): when a pick of player p commits while a pick of p for
\* another team is in flight, the other pick fails with player-unavailable and
\* no other kind, and p is a member of exactly one team.
C2_PlayerRaceAsStated ==
    [][\A d, e \in DraftSessions :
         PlayerRace(d, e) =>
            /\ PlayerRaceOneWinner(d, e)
            /\ Recheck(e)' = "PlayerUnavailable"]_vars

\* C2 (amended): when a pick of player p commits while a pick of p for another
\* team is in flight, the other pick cannot commit: its checks, run on what
\* the winner stored, fail with player-unavailable, not-your-turn or
\* draft-not-active; p is a member of exactly one team.
C2_PlayerRace ==
    [][\A d, e \in DraftSessions :
         PlayerRace(d, e) =>
            /\ PlayerRaceOneWinner(d, e)
            /\ Recheck(e)' \in
                 {"PlayerUnavailable", "NotYourTurn", "DraftNotActive"}]_vars

\* a state right after such a race: p is on d's team while another team's
\* pick of p is still in flight
C2_Witness ==
    \E d, e \in DraftSessions :
        /\ d # e /\ InFlight(e)
        /\ dsess[d].pc = "idle" /\ dsess[d].error = "none"
        /\ dsess[d].teamId # NoTeam /\ dsess[e].teamId # dsess[d].teamId
        /\ dsess[e].playerToPick = dsess[d].playerToPick
        /\ dsess[d].playerToPick \in teams[dsess[d].teamId].memberIds

\* C3: after k committed picks since the draft was created, whatever calls
\* failed in between, totalPicksMade = k, currentPickIndex = k mod
\* len(pickOrder) and roundNumber = 1 + k div len(pickOrder); the index always
\* lies inside pickOrder.
C3_Counters ==
    draft.exists =>
        /\ draft.totalPicksMade = picksDone
        /\ draft.currentPickIndex = picksDone % Len(draft.pickOrder)
        /\ draft.roundNumber = 1 + (picksDone \div Len(draft.pickOrder))
        /\ draft.currentPickIndex < Len(draft.pickOrder)

\* the pick order has been gone through once and a call has failed
C3_Witness ==
    /\ draft.exists /\ picksDone = Len(draft.pickOrder)
    /\ draft.currentPickIndex = 0 /\ draft.roundNumber = 2
    /\ \E d \in DraftSessions :
         dsess[d].error \in {"NotYourTurn", "DraftNotActive", "PlayerUnavailable"}

\* C4: a pick commits only if, in the stored documents at the commit, the
\* draft is active, the team that receives the player is the one at
\* pickOrder[currentPickIndex], and the player is in the pool.
C4_CommitChecked ==
    [][\A d \in DraftSessions :
         PickCommitted(d) =>
            /\ draft.exists /\ draft.status = "active"
            /\ draft.pickOrder[draft.currentPickIndex + 1] = dsess[d].teamId
            /\ dsess[d].playerToPick \in event.availableForDraftIds
            /\ \A t \in 1..Len(teams) :
                 teams'[t] # teams[t] =>
                    t = draft.pickOrder[draft.currentPickIndex + 1]]_vars

\* a pick has committed from a page whose copy of the draft was out of date
C4_Witness ==
    \E d \in DraftSessions :
        /\ dsess[d].pc = "idle" /\ dsess[d].error = "none"
        /\ dsess[d].teamId # NoTeam
        /\ dsess[d].playerToPick \in teams[dsess[d].teamId].memberIds
        /\ dsess[d].draftData.totalPicksMade + 1 < draft.totalPicksMade

\* C5 (as stated): a committed pick completes the draft and activates the
\* event exactly when the pool it leaves has at most numberOfTeams players;
\* otherwise the draft stays active and the event stays drafting.
C5_CompletionAsStated ==
    [][\A d \in DraftSessions :
         PickCommitted(d) =>
            IF PoolSize' <= event.numberOfTeams
            THEN draft'.status = "completed" /\ event'.status = "active"
            ELSE draft'.status = "active" /\ event'.status = "drafting"]_vars

\* C6 (as stated): in the worked example the first four picks all commit, so
\* the draft is still active before the fourth; after the first pick the
\* index is 1 in round 1, after the fourth the index is 0 in round 2.
C6_ExampleAsStated ==
    /\ picksDone < ExampleTeams => draft.status = "active"
    /\ picksDone = 1 =>
          /\ draft.currentPickIndex = 1 /\ draft.totalPicksMade = 1
          /\ draft.roundNumber = 1
    /\ picksDone = ExampleTeams =>
          draft.currentPickIndex = 0 /\ draft.roundNumber = 2

\* C7: a committed pick of p for team T removes p, and only p, from the pool,
\* adds p, and only p, to T.memberIds, sets p's teamId to T, and changes no
\* other team, no other user, not the participants and not the pick order.
C7_RosterEffects ==
    [][\A d \in DraftSessions :
         PickCommitted(d) =>
            LET p == dsess[d].playerToPick
                T == dsess[d].teamId
            IN /\ p \in event.availableForDraftIds
               /\ event'.availableForDraftIds = event.availableForDraftIds \ {p}
               /\ event'.participantIds = event.participantIds
               /\ Len(teams') = Len(teams)
               /\ teams'[T].memberIds = teams[T].memberIds \cup {p}
               /\ teams'[T].captainId = teams[T].captainId
               /\ \A t \in 1..Len(teams) : t # T => teams'[t] = teams[t]
               /\ users'[p].teamId = T /\ users'[p].role = users[p].role
               /\ \A u \in Users : u # p => users'[u] = users[u]
               /\ draft'.pickOrder = draft.pickOrder]_vars

\* a pick has committed: the player is on the team and out of the pool
C7_Witness ==
    \E d \in DraftSessions :
        /\ dsess[d].pc = "idle" /\ dsess[d].error = "none"
        /\ dsess[d].teamId # NoTeam
        /\ dsess[d].playerToPick \in teams[dsess[d].teamId].memberIds
        /\ users[dsess[d].playerToPick].teamId = dsess[d].teamId
        /\ dsess[d].playerToPick \notin event.availableForDraftIds
        /\ event.availableForDraftIds # {}

\* C8: a pick that ends in a failure leaves draft, event, teams and users as
\* they were, and once the draft exists its writes are never seen in part: a
\* step changes the draft, the pool, a team and a user together or not at all.
C8_FailureWritesNothing ==
    [][/\ \A d \in DraftSessions :
            PickRejected(d) => UNCHANGED <<event, teams, users, draft, invites>>
       /\ draft.exists =>
            /\ (draft' # draft) = (teams' # teams)
            /\ (teams' # teams) = (users' # users)
            /\ (users' # users) =
                 (event'.availableForDraftIds # event.availableForDraftIds)]_vars

\* one pick has been given up after a refused commit, another was rejected by
\* its checks
C8_Witness ==
    \E d, e \in DraftSessions :
        /\ dsess[d].error = "TurnConflict"
        /\ dsess[e].error \in {"NotYourTurn", "DraftNotActive", "PlayerUnavailable"}

\* a step that creates the draft document
DraftCreated == ~draft.exists /\ draft'.exists

\* C9 (as stated): when startDraft commits, the stored pickOrder has no
\* duplicates, has numberOfTeams entries, and its ids are exactly the teams
\* the event has in the store at that moment.
C9_PickOrderAsStated ==
    [][DraftCreated =>
         /\ NoDuplicates(draft'.pickOrder)
         /\ Len(draft'.pickOrder) = event.numberOfTeams
         /\ SeqToSet(draft'.pickOrder) = 1..Len(teams)]_vars

\* C10 (as stated): startDraft commits only if the store, at that moment, has
\* exactly numberOfTeams teams, a status of setup, inviting or
\* assigningCaptains, and a non-empty pool.
C10_StartGuardsAsStated ==
    [][DraftCreated =>
         /\ Len(teams) = event.numberOfTeams
         /\ event.status \in {"setup", "inviting", "assigningCaptains"}
         /\ event.availableForDraftIds # {}]_vars

\* ------------------------------------------------ lifecycle and roster
\* position of a status in setup < inviting < assigningCaptains < drafting <
\* active < completed
StatusRank(st) ==
    CASE st = "setup" -> 0
      [] st = "inviting" -> 1
      [] st = "assigningCaptains" -> 2
      [] st = "drafting" -> 3
      [] st = "active" -> 4
      [] st = "completed" -> 5

\* a startDraft call of session a ends in this step
StartDraftEnds(a) ==
    admin[a].pc \in {"started", "read"} /\ admin'[a].pc = "idle"

OnSomeTeam(u) == \E t \in TeamIds : u \in teams[t].memberIds

\* C11: once the draft exists it stays, its pickOrder never changes, its
\* round and pick counters never go back, only a committing pick changes it,
\* and every startDraft that ends afterwards, begun before or after the
\* creation, fails and writes nothing.
C11_DraftCreatedOnce ==
    [][draft.exists =>
         /\ draft'.exists
         /\ draft'.pickOrder = draft.pickOrder
         /\ draft'.roundNumber >= draft.roundNumber
         /\ draft'.totalPicksMade >= draft.totalPicksMade
         /\ draft' # draft =>
               /\ \E d \in DraftSessions : PickCommitted(d)
               /\ draft'.totalPicksMade = draft.totalPicksMade + 1
         /\ \A a \in AdminSessions :
               StartDraftEnds(a) =>
                  /\ admin'[a].error
                  /\ UNCHANGED <<event, teams, users, invites, draft>>]_vars

\* picks have been made and a startDraft, issued from a page that still
\* shows the event as not drafted, is in flight
C11_Witness ==
    /\ draft.exists /\ draft.totalPicksMade > 0
    /\ \E a \in AdminSessions : admin[a].pc = "started"

\* C12: no step moves event.status to an earlier state of the lifecycle, and
\* a pick commits only onto an event that is drafting.
C12_StatusMonotonic ==
    [][/\ StatusRank(event'.status) >= StatusRank(event.status)
       /\ \A d \in DraftSessions :
            PickCommitted(d) => event.status = "drafting"]_vars

\* a startDraft read the event before the draft existed and is still waiting
\* to commit, refused, while the event has become active
C12_Witness ==
    /\ event.status = "active"
    /\ \E a \in AdminSessions : admin[a].pc = "read" /\ admin[a].stale

\* C13 (as stated): the event never has more teams than numberOfTeams.
C13_TeamCountAsStated == Len(teams) <= event.numberOfTeams

\* C14 (as stated): no team is created, no role changed and the pool is not
\* overwritten by assignCaptain while the stored status is drafting, active
\* or completed.
C14_AssignStatusAsStated ==
    [][event.status \in {"drafting", "active", "completed"} =>
         /\ teams' = teams \/ \E d \in DraftSessions : PickCommitted(d)
         /\ \A u \in Users : users'[u].role = users[u].role]_vars

\* C15 (as stated): a step that creates a team for captain p creates it with
\* memberIds = {p}, makes p a captain of that team, and takes p, and only p,
\* out of the stored pool.
C15_AssignEffectsAsStated ==
    [][Len(teams') = Len(teams) + 1 =>
         LET T == Len(teams')
             p == teams'[T].captainId
         IN /\ teams'[T].memberIds = {p}
            /\ users'[p] = [role |-> "captain", teamId |-> T]
            /\ event'.availableForDraftIds = event.availableForDraftIds \ {p}]_vars

\* C16 (as stated): no captain of a team is in the pool.
C16_CaptainNotInPoolAsStated ==
    \A t \in TeamIds : teams[t].captainId \notin event.availableForDraftIds

\* C17: the pool is a subset of the participants.
C17_PoolSubset == event.availableForDraftIds \subseteq event.participantIds

\* an acceptance and a captain assignment have interleaved: a captain exists
\* and a participant who accepted is neither in the pool nor on a team
C17_Witness ==
    /\ Len(teams) > 0
    /\ \E u \in event.participantIds :
         /\ u \notin event.availableForDraftIds
         /\ ~OnSomeTeam(u)
    /\ event.availableForDraftIds # {}

\* C18 (as stated): every participant is either in the pool or a member of a
\* team, and never both.
C18_PoolExactAsStated ==
    \A u \in event.participantIds :
        (u \in event.availableForDraftIds) # OnSomeTeam(u)

\* ------------------------------------------------------------ scoring
\* session s ends a submission in this step: it committed or it failed
Submits(s) ==
    /\ ssess[s].error = "none"
    /\ scores' # scores \/ ssess'[s].error # "none"
    /\ ssess'[s] # ssess[s]

\* C19 (as stated): no two score records have the same team (all records are
\* of the one sub-event).
C19_OneScorePerTeamAsStated ==
    \A i, j \in 1..Len(scores) : scores[i].teamId = scores[j].teamId => i = j

\* C20 (as stated): a submission whose inputs are those of a submission that
\* has committed writes nothing: the score records and the sub-event stay as
\* they are.
C20_IdempotentAsStated ==
    [][\A s \in ScoreSessions :
         (Submits(s) /\ ssess[s].scores \in submitted) =>
            UNCHANGED <<scores, subEvent>>]_vars

\* an entry that is an integer: an optional sign and digits, nothing else
IsInteger(t) ==
    LET u == Trim(t)
        body == IF u # <<>> /\ Head(u) \in {"-", "+"} THEN Tail(u) ELSE u
    IN body # <<>> /\ \A i \in 1..Len(body) : body[i] \in Digits

\* some entry is not blank and is not an integer
HasBadEntry(inputs) ==
    \E i \in 1..Len(inputs) : Trim(inputs[i]) # <<>> /\ ~IsInteger(inputs[i])

\* C21 (as stated): a submission with an entry that is not blank and is not
\* an integer fails with a validation error and leaves the score records and
\* the sub-event as they are, also when valid entries come before it.
C21_ValidationAsStated ==
    [][\A s \in ScoreSessions :
         (Submits(s) /\ HasBadEntry(ssess[s].scores)) =>
            /\ UNCHANGED <<scores, subEvent>>
            /\ ssess'[s].error = "ValidationError"]_vars

\* the score records of team t
ScoresOf(sc, t) == {i \in 1..Len(sc) : sc[i].teamId = t}

\* C22 (as stated): after a submission has committed, a team whose entry was
\* blank has no score record, and a team whose entry was an integer has
\* exactly one, with the points entered (an earlier record is replaced or
\* deleted).
C22_UpsertAsStated ==
    [][\A s \in ScoreSessions :
         (Submits(s) /\ scores' # scores) =>
            \A i \in 1..Len(ssess[s].scores) :
               LET entry == Trim(ssess[s].scores[i])
                   recs == ScoresOf(scores', ssess[s].allEventTeams[i])
               IN IF entry = <<>> THEN recs = {}
                  ELSE /\ Cardinality(recs) = 1
                       /\ \A r \in recs : scores'[r].points = parseInt(entry).val]_vars

\* -------------------------------------------------------- leaderboard
\* the table the leaderboard page shows
Board == leaderboardData(lboard.teams, lboard.scores)

\* the sum of the points of the score records of team t
RECURSIVE SumPoints(_, _)
SumPoints(sc, t) ==
    IF sc = <<>> THEN 0
    ELSE (IF Head(sc).teamId = t THEN Head(sc).points ELSE 0)
             + SumPoints(Tail(sc), t)

\* the page is shown and its listener has delivered the stored score records
BoardCurrent ==
    /\ lboard.mounted /\ ~lboard.loading
    /\ Len(lboard.scores) = Len(scores)
    /\ \E order \in Perms(Len(scores)) : lboard.scores = Permute(scores, order)

\* C23 (as stated): the leaderboard has one row per team of the event, the
\* total of a row is the sum of the points of the team's score records (0
\* when it has none), and the rows are in descending order of total, teams of
\* equal total in the order in which the teams were created.
C23_LeaderboardAsStated ==
    BoardCurrent =>
       /\ Len(Board) = Len(teams)
       /\ \A t \in TeamIds : \E i \in 1..Len(Board) : Board[i].teamId = t
       /\ \A i \in 1..Len(Board) :
             Board[i].totalPoints = SumPoints(scores, Board[i].teamId)
       /\ \A i, j \in 1..Len(Board) :
             i < j => \/ Board[i].totalPoints > Board[j].totalPoints
                      \/ /\ Board[i].totalPoints = Board[j].totalPoints
                         /\ Board[i].teamId < Board[j].teamId

\* C24: a step of the leaderboard page changes no stored record, and the
\* table it then shows is the same for every order in which the score
\* records it holds could have been delivered: totals and order of the rows
\* depend on the fetched teams and on the multiset of score records only.
C24_OrderIndependent ==
    /\ [](\A order \in Perms(Len(lboard.scores)) :
             leaderboardData(lboard.teams,
                             Permute(lboard.scores, order)) = Board)
    /\ [][lboard' # lboard =>
             UNCHANGED <<event, teams, users, invites, draft, subEvent,
                         scores>>]_vars

\* the page shows a team with two score records of different points, and
\* the records were delivered in an order that is not that of their creation
C24_Witness ==
    /\ lboard.mounted /\ ~lboard.loading
    /\ Len(lboard.scores) = Len(scores)
    /\ lboard.scores # scores
    /\ \E i, j \in 1..Len(lboard.scores) :
          /\ i < j
          /\ lboard.scores[i].teamId = lboard.scores[j].teamId
          /\ lboard.scores[i].points # lboard.scores[j].points
          /\ lboard.scores[i].teamId \in SeqToSet(lboard.teams)

\* ------------------------------------------------------ who may pick
\* d's call of handlePickPlayer ends in this step
PickEnds(d) == InFlight(d) /\ dsess'[d].pc = "idle"

\* the user of d is the captain of the team the stored draft has on the clock
OnTheClock(d) ==
    /\ draft.exists /\ draft.status = "active"
    /\ teams[draft.pickOrder[draft.currentPickIndex + 1]].captainId
          = dsess[d].user

C26_OneTeamPerUserAsStated ==
    \A t1, t2 \in TeamIds :
        t1 # t2 =>
           /\ teams[t1].memberIds \cap teams[t2].memberIds = {}
           /\ teams[t1].captainId # teams[t2].captainId

\* C27 (as stated): whenever the draft is completed the pool is empty.
C27_CompletedPoolEmptyAsStated ==
    (draft.exists /\ draft.status = "completed") =>
        event.availableForDraftIds = {}

\* C28: there is no draft exactly while the event is in setup, the draft is
\* active exactly while the event is drafting, and a completed draft means
\* the event is active or completed.
C28_DraftEventAgree ==
    /\ ~draft.exists <=> event.status = "setup"
    /\ (draft.exists /\ draft.status = "active") <=> event.status = "drafting"
    /\ (draft.exists /\ draft.status = "completed") =>
          event.status \in {"active", "completed"}

\* picks have completed the draft and made the event active
C28_Witness ==
    /\ draft.exists /\ draft.status = "completed"
    /\ event.status = "active"
    /\ draft.totalPicksMade >= 1

\* C29 (as stated, its safety part): while the draft is active the pool is
\* not empty and the team at pickOrder[currentPickIndex] exists, so that a
\* pick is always possible and the draft can reach completed.
C29_ActiveDraftCanPickAsStated ==
    (draft.exists /\ draft.status = "active") =>
        /\ event.availableForDraftIds # {}
        /\ draft.pickOrder # <<>>
        /\ draft.pickOrder[draft.currentPickIndex + 1] \in TeamIds

\* C30 (as stated): once the event is drafting, active or completed, no step
\* adds a user to the pool.
C30_PoolClosedAsStated ==
    [][event.status \in {"drafting", "active", "completed"} =>
          event'.availableForDraftIds \subseteq event.availableForDraftIds]_vars

====
